---- MODULE Spec2Model ----
(***************************************************************************)
(* Model of the duplicate-file search engine (src/src/search_engine.cpp):  *)
(* the block-hash trie built by SearchEngine::Impl::run / pre_process /    *)
(* process / hash_block, and the forward iterator over it.                 *)
(*                                                                         *)
(* A filesystem path is the sequence of its elements (<<"d","s","a">> is   *)
(* d/s/a), the empty sequence being the empty path.  A file's content is   *)
(* a sequence of bytes; two byte values (zero and non-zero) are enough to  *)
(* tell the zero padding of a short block from data.                       *)
(***************************************************************************)
EXTENDS Integers, Sequences, FiniteSets, Bags, TLC

\* Bounds of the model.
MaxFileSize == 2
MaxBlockSize == 3

Bytes == {0, 1}
Contents == UNION {[1..n -> Bytes] : n \in 0..MaxFileSize}

VARIABLES
    fs,                 \* the filesystem: path -> [kind, data, readable]
    ndebug,             \* whether the build compiles assert() out
    block_size, file_min_size, paths_scan, paths_exclude, rxpatterns,
    root,               \* Impl::root, the trie: node position -> Node
    buffer,             \* Impl::buffer, the scratch block
    path_exclude_from,  \* Impl::path_exclude_from
    pc,                 \* "idle", "scan" (inside run()), "aborted"
    recursive,          \* run()'s argument
    idx,                \* position of run()'s loop in paths_scan
    pending,            \* entries the directory iterator has yet to yield
    hashes,             \* number of hash_block calls of the current run
    order,              \* paths that passed the candidate filter, in order
    ran,                \* whether run() was ever called
    prev,               \* what the previous run() left, if there was one
    it,                 \* the caller's iterator, if any
    origin,             \* "begin" or "end": how the caller got it
    acc,                \* the caller's Accessor, if any
    vis,                \* how the caller's last visit() ended, if any
    at_end              \* whether acc was taken from an iterator equal to end()

cfg == <<block_size, file_min_size, paths_scan, paths_exclude, rxpatterns>>
engine == <<root, buffer, path_exclude_from>>
ghost == <<hashes, order, ran, prev>>
caller == <<it, origin, acc, vis, at_end>>
vars == <<fs, ndebug, cfg, engine, pc, recursive, idx, pending, ghost, caller>>

Min(a, b) == IF a < b THEN a ELSE b
Max(a, b) == IF a < b THEN b ELSE a

IsPrefix(s, t) == Len(s) <= Len(t) /\ SubSeq(t, 1, Len(s)) = s

----------------------------------------------------------------------------
\* The filesystem (boost::filesystem as the engine uses it).

exists(p) == p \in DOMAIN fs
is_regular_file(p) == exists(p) /\ fs[p].kind = "file"
is_directory(p) == exists(p) /\ fs[p].kind = "dir"
file_size(p) == Len(fs[p].data)
filename(p) == p[Len(p)]

\* fs::relative(p, base): what leads from base to p, ".." for every element
\* of base that p does not share.
RECURSIVE Common(_, _)
Common(s, t) ==
    IF s # <<>> /\ t # <<>> /\ Head(s) = Head(t)
    THEN 1 + Common(Tail(s), Tail(t)) ELSE 0
relative(p, base) ==
    LET k   == Common(p, base)
        rel == [i \in 1..(Len(base) - k) |-> ".."] \o SubSeq(p, k + 1, Len(p))
    IN  IF rel = <<>> THEN <<".">> ELSE rel

\* The entries fs::directory_iterator (flat) or
\* fs::recursive_directory_iterator yields for directory p.
Entries(p, rec) ==
    {q \in DOMAIN fs : /\ IsPrefix(p, q)
                       /\ Len(q) > Len(p)
                       /\ (rec \/ Len(q) = Len(p) + 1)}

----------------------------------------------------------------------------
\* The candidate filter.

\* rng::search(lhs, rhs) != lhs.end(): rhs occurs in lhs as a contiguous run
\* of elements (an empty rhs is found at lhs.begin(), which is lhs.end() only
\* for an empty lhs).
search(lhs, rhs) ==
    IF rhs = <<>> THEN lhs # <<>>
    ELSE \E i \in 1..Len(lhs) :
            /\ i + Len(rhs) - 1 <= Len(lhs)
            /\ SubSeq(lhs, i, i + Len(rhs) - 1) = rhs

\* is_excluded with the slip of comparing the relative path with an excluded
\* path as a whole (std::find, as main.cpp's is_excluded does) instead of
\* searching the excluded path in it.
IsExcludedWholePath(path, from, excl) ==
    IF excl = <<>> THEN FALSE
    ELSE \E k \in 1..Len(excl) : relative(path, from) = excl[k]

is_excluded(path, from, excl) ==
    IF excl = <<>> THEN FALSE
    ELSE \E k \in 1..Len(excl) : search(relative(path, from), excl[k])

\* The excluded paths after a check that erases the first entry it matched
\* (the excl_paths.erase(it) of main.cpp's is_excluded, lines 62-66).
ExcludedAfterErase(path, from, excl) ==
    LET hit == {k \in 1..Len(excl) : search(relative(path, from), excl[k])} IN
    IF hit = {} THEN excl
    ELSE LET k == CHOOSE i \in hit : \A j \in hit : i <= j
         IN  SubSeq(excl, 1, k - 1) \o SubSeq(excl, k + 1, Len(excl))

\* Lines 32-35 and 103: the excluded paths after is_excluded(path, excl).
\* The list is a const member handed over by const reference and only read.
ExcludedAfter(path, from, excl) == excl

\* A compiled pattern is the set of filenames it matches.
match_any(p, patterns) ==
    IF patterns = <<>> THEN TRUE
    ELSE \E k \in 1..Len(patterns) : filename(p) \in patterns[k]

\* The filter of process() with the two tests joined the wrong way: a file
\* passes when either test lets it pass.
AcceptedByEitherTest(p) == match_any(p, rxpatterns) \/ file_size(p) >= file_min_size

\* Lines 187-189: the tests a file has to pass in process().
Accepted(p) == match_any(p, rxpatterns) /\ file_size(p) >= file_min_size

----------------------------------------------------------------------------
\* The trie.  A node is named by the sequence of block keys leading to it
\* from the root (<<>>); root maps the nodes that exist to their fields.
\* Node::childs of node n are the existing nodes one key below n.

NoPath == <<>>
Node == [duplicates |-> <<>>, file_to_compare |-> NoPath]

childs(tr, n) == {q \in DOMAIN tr : Len(q) = Len(n) + 1 /\ IsPrefix(n, q)}

\* childs[key]: the child, default-constructed when absent.
At(tr, q) == IF q \in DOMAIN tr THEN tr[q] ELSE Node
Put(tr, q, node) == [x \in DOMAIN tr \cup {q} |-> IF x = q THEN node ELSE tr[x]]

\* The trie of a new engine: the root node, empty.
EmptyTrie == [x \in {<<>>} |-> Node]

\* clear() with the slip of leaving root.childs as it is.
ClearKeepsChilds == [x \in DOMAIN root |-> IF x = <<>> THEN Node ELSE root[x]]

\* clear(): only the root node is left, empty.
clear == EmptyTrie

\* The digest of a block as a map key: distinct blocks of one length get
\* distinct keys (the hash is taken to be collision-free on the blocks used).
RECURSIVE Digest(_)
Digest(block) ==
    IF block = <<>> THEN 1 ELSE Head(block) + 2 * Digest(Tail(block))

\* fs::ifstream{p}: the stream is good iff the open succeeded.
ifstream(p) == [good |-> fs[p].readable, data |-> fs[p].data]

\* hash_block taking the file for ended as soon as its last byte has been
\* read, where eof() is set only by a read that comes up short.
HashBlockEofAtLastByte(is, level, buf) ==
    LET off    == level * block_size
        gcount == IF is.good THEN Min(block_size, Max(0, Len(is.data) - off)) ELSE 0
        eof    == is.good /\ off + gcount >= Len(is.data)
        filled == [i \in 1..block_size |->
                     IF i <= gcount THEN is.data[off + i]
                     ELSE IF eof THEN 0 ELSE buf[i]]
    IN  [buffer |-> filled, key |-> Digest(filled), eof |-> eof]

\* hash_block taking a read of a whole block for the end of the file too
\* (gcount() <= block_size in place of eof()), so every read is a last one.
HashBlockAlwaysEof(is, level, buf) ==
    LET off    == level * block_size
        gcount == IF is.good THEN Min(block_size, Max(0, Len(is.data) - off)) ELSE 0
        eof    == is.good /\ gcount <= block_size
        filled == [i \in 1..block_size |->
                     IF i <= gcount THEN is.data[off + i]
                     ELSE IF eof THEN 0 ELSE buf[i]]
    IN  [buffer |-> filled, key |-> Digest(filled), eof |-> eof]

\* hash_block(is, level) with the scratch buffer buf: the buffer after the
\* read, the key of its digest, and is.eof() after the read.  A stream that
\* is not good reads nothing, sets no eofbit and leaves the buffer as it was.
hash_block(is, level, buf) ==
    LET off    == level * block_size
        gcount == IF is.good THEN Min(block_size, Max(0, Len(is.data) - off)) ELSE 0
        eof    == is.good /\ gcount < block_size
        filled == [i \in 1..block_size |->
                     IF i <= gcount THEN is.data[off + i]
                     ELSE IF eof THEN 0 ELSE buf[i]]
    IN  [buffer |-> filled, key |-> Digest(filled), eof |-> eof]

\* A duplicates list that takes new paths at its front.
push_front(paths, x) == <<x>> \o paths

\* Lines 201 and 214: duplicates.push_back(path) on a paths_type (a vector).
push_back(paths, x) == Append(paths, x)

\* Promote with the slip of clearing the pending file of n without storing it
\* in the child when its last block was read.
PromoteDropsEnded(tr, n, level, buf) ==
    LET x  == tr[n].file_to_compare
        hb == hash_block(ifstream(x), level, buf)
        c  == Append(n, hb.key)
        cn == At(tr, c)
    IN  IF hb.eof
        THEN [root |-> Put(Put(tr, c, cn),
                           n, [tr[n] EXCEPT !.file_to_compare = NoPath]),
              buffer |-> hb.buffer]
        ELSE [root |-> Put(Put(tr, c, [cn EXCEPT !.file_to_compare = x]),
                           n, [tr[n] EXCEPT !.file_to_compare = cn.file_to_compare]),
              buffer |-> hb.buffer]

\* Promote with the slip of not looking at eof(): the pending file always goes
\* to the child's duplicates.
PromoteAlwaysEnded(tr, n, level, buf) ==
    LET x  == tr[n].file_to_compare
        hb == hash_block(ifstream(x), level, buf)
        c  == Append(n, hb.key)
        cn == At(tr, c)
    IN  [root |-> Put(Put(tr, c, [cn EXCEPT !.duplicates = Append(@, x)]),
                      n, [tr[n] EXCEPT !.file_to_compare = NoPath]),
         buffer |-> hb.buffer]

\* Promote with the slip of copying the pending file of n to the child
\* where the code moves it: n keeps its pending file.
PromoteKeepsPending(tr, n, level, buf) ==
    LET x  == tr[n].file_to_compare
        hb == hash_block(ifstream(x), level, buf)
        c  == Append(n, hb.key)
        cn == At(tr, c)
    IN  IF hb.eof
        THEN [root |-> Put(tr, c, [cn EXCEPT !.duplicates = Append(@, x)]),
              buffer |-> hb.buffer]
        ELSE [root |-> Put(tr, c, [cn EXCEPT !.file_to_compare = x]),
              buffer |-> hb.buffer]

\* Lines 197-204: the pending file of node n is pushed one level down.
Promote(tr, n, level, buf) ==
    LET x  == tr[n].file_to_compare
        hb == hash_block(ifstream(x), level, buf)
        c  == Append(n, hb.key)
        cn == At(tr, c)
    IN  IF hb.eof
        THEN [root |-> Put(Put(tr, c, [cn EXCEPT !.duplicates = push_back(@, x)]),
                           n, [tr[n] EXCEPT !.file_to_compare = NoPath]),
              buffer |-> hb.buffer]
        ELSE [root |-> Put(Put(tr, c, [cn EXCEPT !.file_to_compare = x]),
                           n, [tr[n] EXCEPT !.file_to_compare = cn.file_to_compare]),
              buffer |-> hb.buffer]

\* Lines 196-217: the loop of process() from node n at the given level, for
\* the new file and its stream.  The result holds the trie, the buffer, the
\* number of hash_block calls made and whether an assert() stopped the
\* program.
RECURSIVE Loop(_, _, _, _, _, _)
Loop(tr, buf, cnt, n, level, file) ==
    LET pend == tr[n].file_to_compare # NoPath
        bad1 == pend /\ ~ifstream(tr[n].file_to_compare).good /\ ~ndebug
        p    == IF pend THEN Promote(tr, n, level, buf)
                ELSE [root |-> tr, buffer |-> buf]
        cnt1 == IF pend THEN cnt + 1 ELSE cnt
        is   == ifstream(file)
        hb   == hash_block(is, level, p.buffer)
        c    == Append(n, hb.key)
        tr2  == Put(p.root, c, At(p.root, c))
    IN  IF bad1
        THEN [root |-> tr, buffer |-> buf, hashes |-> cnt, aborted |-> TRUE]
        ELSE IF ~pend /\ childs(tr, n) = {}
        THEN [root |-> Put(tr, n, [tr[n] EXCEPT !.file_to_compare = file]),
              buffer |-> buf, hashes |-> cnt, aborted |-> FALSE]
        ELSE IF ~is.good /\ ~ndebug
        THEN [root |-> p.root, buffer |-> p.buffer, hashes |-> cnt1, aborted |-> TRUE]
        ELSE IF hb.eof
        THEN [root |-> Put(tr2, c, [tr2[c] EXCEPT !.duplicates = push_back(@, file)]),
              buffer |-> hb.buffer, hashes |-> cnt1 + 1, aborted |-> FALSE]
        ELSE Loop(tr2, hb.buffer, cnt1 + 1, c, level + 1, file)

\* process() with a test it does not make: a path the trie already holds
\* passes the filter but is not stored again.
ProcessSkipsStored(file) ==
    IF ~Accepted(file)
    THEN [root |-> root, buffer |-> buffer, hashes |-> hashes, aborted |-> FALSE,
          order |-> order]
    ELSE IF file \in {order[i] : i \in 1..Len(order)}
    THEN [root |-> root, buffer |-> buffer, hashes |-> hashes, aborted |-> FALSE,
          order |-> Append(order, file)]
    ELSE [order |-> Append(order, file)] @@ Loop(root, buffer, hashes, <<>>, 0, file)

\* process(file_path): what it leaves, and whether the file passed the filter.
process(file) ==
    IF ~Accepted(file)
    THEN [root |-> root, buffer |-> buffer, hashes |-> hashes, aborted |-> FALSE,
          order |-> order]
    ELSE [order |-> Append(order, file)] @@ Loop(root, buffer, hashes, <<>>, 0, file)

\* pre_process(file_path)
pre_process(file) ==
    IF is_excluded(file, path_exclude_from, paths_exclude) \/ ~is_regular_file(file)
    THEN [root |-> root, buffer |-> buffer, hashes |-> hashes, aborted |-> FALSE,
          order |-> order]
    ELSE process(file)


----------------------------------------------------------------------------
\* The iterator.  A map iterator (nodes_type::const_iterator) names the map
\* it runs over by the node owning it, and either a key of that map or the
\* map's end.  An optional or a not-yet-made object is a sequence of length
\* at most one.

MapEnd(n) == [node |-> n, key |-> 0, end |-> TRUE]
Keys(tr, n) == {q[Len(q)] : q \in childs(tr, n)}
MapAt(n, k) == [node |-> n, key |-> k, end |-> FALSE]
MapBegin(tr, n) ==
    IF Keys(tr, n) = {} THEN MapEnd(n)
    ELSE MapAt(n, CHOOSE k \in Keys(tr, n) : \A j \in Keys(tr, n) : k <= j)
\* ++it on a map iterator: the next key in ascending order.
MapSucc(tr, i) ==
    LET above == {k \in Keys(tr, i.node) : k > i.key} IN
    IF above = {} THEN MapEnd(i.node)
    ELSE MapAt(i.node, CHOOSE k \in above : \A j \in above : k <= j)
\* it->second: the node a map iterator points at.
Second(i) == Append(i.node, i.key)

\* Iterator::Impl: the accessor (root is the engine's trie, iterator an
\* optional map iterator) and the descent path, front first.  failed records
\* that an assert() of lookup_end_at_left did not hold.
IterImpl(path, iterator, on) ==
    [path |-> path,
     accessor |-> [iterator |-> iterator, on_file_to_compare |-> on],
     failed |-> FALSE]

RECURSIVE lookup_end_at_left(_, _)
lookup_end_at_left(tr, s) ==
    IF s.path = <<>> \/ Head(s.path) = MapEnd(<<>>) \/ Head(s.path).end
    THEN [s EXCEPT !.failed = TRUE]
    ELSE LET f  == Head(s.path)
             n  == tr[Second(f)]
             s1 == [s EXCEPT !.accessor.iterator = <<f>>]
         IN  IF n.duplicates # <<>>
             THEN [s1 EXCEPT !.accessor.on_file_to_compare = FALSE]
             ELSE IF n.file_to_compare # NoPath
             THEN [s1 EXCEPT !.accessor.on_file_to_compare = TRUE]
             ELSE lookup_end_at_left(tr,
                    [s1 EXCEPT !.path = <<MapBegin(tr, Second(f))>> \o @])

\* The for loop of next() (lines 302-309): go right, or up and right.
RECURSIVE GoRight(_, _, _)
GoRight(tr, i, path) ==
    IF i # MapEnd(<<>>) /\ path # <<>> /\ i = MapEnd(Second(Head(path)))
    THEN GoRight(tr, MapSucc(tr, Head(path)), Tail(path))
    ELSE [it |-> i, path |-> path]

\* next() with the slip of leaving out lines 293-296: a pending file resting
\* at a node that also holds ended files is passed over.
NextSkipsPending(tr, s) ==
    IF s.path = <<>>
    THEN [s EXCEPT !.path = <<MapEnd(<<>>)>>, !.accessor.on_file_to_compare = FALSE]
    ELSE LET i == Head(s.path) IN
         IF i = MapEnd(<<>>) THEN s
         ELSE IF childs(tr, Second(i)) = {}
         THEN LET g == GoRight(tr, MapSucc(tr, i), Tail(s.path))
                  p == <<g.it>> \o g.path
              IN  IF g.it = MapEnd(<<>>)
                  THEN [s EXCEPT !.path = p, !.accessor.iterator = <<>>,
                                 !.accessor.on_file_to_compare = FALSE]
                  ELSE lookup_end_at_left(tr, [s EXCEPT !.path = p])
         ELSE lookup_end_at_left(tr,
                [s EXCEPT !.path = <<MapBegin(tr, Second(i))>> \o @])

\* next() with the slip of leaving out lines 283-287: an iterator on the
\* pending file of the root (an empty path) is left where it is.
NextStaysOnRootFile(tr, s) ==
    IF s.path = <<>>
    THEN s
    ELSE LET i == Head(s.path) IN
         IF i = MapEnd(<<>>) THEN s
         ELSE IF ~s.accessor.on_file_to_compare /\ tr[Second(i)].file_to_compare # NoPath
         THEN [s EXCEPT !.accessor.on_file_to_compare = TRUE]
         ELSE IF childs(tr, Second(i)) = {}
         THEN LET g == GoRight(tr, MapSucc(tr, i), Tail(s.path))
                  p == <<g.it>> \o g.path
              IN  IF g.it = MapEnd(<<>>)
                  THEN [s EXCEPT !.path = p, !.accessor.iterator = <<>>,
                                 !.accessor.on_file_to_compare = FALSE]
                  ELSE lookup_end_at_left(tr, [s EXCEPT !.path = p])
         ELSE lookup_end_at_left(tr,
                [s EXCEPT !.path = <<MapBegin(tr, Second(i))>> \o @])

\* Lines 282-322: Iterator::Impl::next().
next(tr, s) ==
    IF s.path = <<>>
    THEN [s EXCEPT !.path = <<MapEnd(<<>>)>>, !.accessor.on_file_to_compare = FALSE]
    ELSE LET i == Head(s.path) IN
         IF i = MapEnd(<<>>) THEN s
         ELSE IF ~s.accessor.on_file_to_compare /\ tr[Second(i)].file_to_compare # NoPath
         THEN [s EXCEPT !.accessor.on_file_to_compare = TRUE]
         ELSE IF childs(tr, Second(i)) = {}
         THEN LET g == GoRight(tr, MapSucc(tr, i), Tail(s.path))
                  p == <<g.it>> \o g.path
              IN  IF g.it = MapEnd(<<>>)
                  THEN [s EXCEPT !.path = p, !.accessor.iterator = <<>>,
                                 !.accessor.on_file_to_compare = FALSE]
                  ELSE lookup_end_at_left(tr, [s EXCEPT !.path = p])
         ELSE lookup_end_at_left(tr,
                [s EXCEPT !.path = <<MapBegin(tr, Second(i))>> \o @])

begin(tr) ==
    IF childs(tr, <<>>) = {}
    THEN IF tr[<<>>].file_to_compare # NoPath
         THEN IterImpl(<<>>, <<>>, FALSE)
         ELSE IterImpl(<<MapBegin(tr, <<>>)>>, <<MapBegin(tr, <<>>)>>, FALSE)
    ELSE lookup_end_at_left(tr,
            IterImpl(<<MapBegin(tr, <<>>)>>, <<MapBegin(tr, <<>>)>>, FALSE))

end(tr) == IterImpl(<<MapEnd(<<>>)>>, <<MapEnd(<<>>)>>, FALSE)

\* operator== of two iterators.
IterEq(l, r) ==
    /\ l.accessor.on_file_to_compare = r.accessor.on_file_to_compare
    /\ l.path = r.path

\* operator* handing out an Accessor that shares the iterator's
\* Accessor::Impl in place of a copy of it.
OperatorStarShares(s) == [shared |-> TRUE, impl |-> s.accessor]

\* Lines 391-393: operator* makes an Accessor with an Accessor::Impl of its
\* own, copied from the iterator's.  An Accessor is its Impl and whether that
\* Impl is the iterator's.
operator_star(s) == [shared |-> FALSE, impl |-> s.accessor]

\* *pimpl_ of Accessor a, i being the iterator it was taken from.
AccessorImpl(a, i) == IF a.shared THEN i.accessor ELSE a.impl

\* Accessor::visit: the possible outcomes, each the way the call ends and the
\* paths handed to the visitor.  Reading through a map's end iterator is
\* undefined: the call may crash or return, having handed the visitor
\* nothing or something that is no stored path.
Outcome(status, paths) == [status |-> status, paths |-> paths]
Garbage == <<"?">>
Undefined ==
    {Outcome("crash", <<>>), Outcome("ok", <<>>), Outcome("ok", <<Garbage>>)}

visit(tr, a) ==
    IF a.iterator = <<>>
    THEN IF tr[<<>>].file_to_compare = NoPath
         THEN {Outcome("bad access", <<>>)}
         ELSE {Outcome("ok", <<tr[<<>>].file_to_compare>>)}
    ELSE LET i == a.iterator[1] IN
         IF i.end THEN Undefined
         ELSE IF a.on_file_to_compare
         THEN {Outcome("ok", <<tr[Second(i)].file_to_compare>>)}
         ELSE {Outcome("ok", tr[Second(i)].duplicates)}

----------------------------------------------------------------------------
\* What the iterator yields: the classes of the trie.  A class is a node's
\* duplicates list or a node's pending file.

Range(s) == {s[i] : i \in 1..Len(s)}

BagOf(s) == [x \in Range(s) |-> Cardinality({i \in 1..Len(s) : s[i] = x})]

\* The classes with the number of times each path is held.
ClassBags(tr) ==
    {BagOf(tr[n].duplicates) : n \in {m \in DOMAIN tr : tr[m].duplicates # <<>>}}
    \cup {BagOf(<<tr[n].file_to_compare>>) :
             n \in {m \in DOMAIN tr : tr[m].file_to_compare # NoPath}}

\* Every path the trie holds, with the number of times it is held.
RECURSIVE SumBags(_)
SumBags(S) ==
    IF S = {} THEN EmptyBag
    ELSE LET b == CHOOSE x \in S : TRUE IN b.bag (+) SumBags(S \ {b})
NodeBag(tr, n) ==
    BagOf(tr[n].duplicates \o
          (IF tr[n].file_to_compare = NoPath THEN <<>> ELSE <<tr[n].file_to_compare>>))
Stored(tr) == SumBags({[node |-> n, bag |-> NodeBag(tr, n)] : n \in DOMAIN tr})

Classes(tr) ==
    {Range(tr[n].duplicates) : n \in {m \in DOMAIN tr : tr[m].duplicates # <<>>}}
    \cup {{tr[n].file_to_compare} : n \in {m \in DOMAIN tr : tr[m].file_to_compare # NoPath}}

----------------------------------------------------------------------------
\* run(recursive), one step per iteration of its loops.

Apply(r) ==
    /\ root' = r.root
    /\ buffer' = r.buffer
    /\ hashes' = r.hashes
    /\ order' = r.order
    /\ pc' = IF r.aborted THEN "aborted" ELSE pc

\* Line 221: run() is entered and clears the trie.
RunBegin ==
    /\ pc = "idle"
    /\ \E rec \in BOOLEAN : recursive' = rec
    /\ prev' = IF ran THEN <<[classes |-> ClassBags(root), recursive |-> recursive]>>
                ELSE <<>>
    /\ root' = clear
    /\ pc' = "scan"
    /\ idx' = 1
    /\ pending' = {}
    /\ hashes' = 0
    /\ order' = <<>>
    /\ ran' = TRUE
    /\ it' = <<>> /\ origin' = "none" /\ acc' = <<>> /\ vis' = <<>> /\ at_end' = FALSE
    /\ UNCHANGED <<fs, ndebug, cfg, buffer, path_exclude_from>>

\* Lines 223-249: one root of paths_scan is looked at.
ScanRoot ==
    /\ pc = "scan"
    /\ pending = {}
    /\ idx <= Len(paths_scan)
    /\ LET path == paths_scan[idx] IN
         /\ idx' = idx + 1
         /\ IF ~exists(path)
            THEN UNCHANGED <<engine, hashes, order, pc, pending>>
            ELSE IF is_regular_file(path)
            THEN /\ Apply(process(path))
                 /\ UNCHANGED <<path_exclude_from, pending>>
            ELSE IF ~is_directory(path)
            THEN UNCHANGED <<engine, hashes, order, pc, pending>>
            ELSE /\ path_exclude_from' = path
                 /\ pending' = Entries(path, recursive)
                 /\ UNCHANGED <<root, buffer, hashes, order, pc>>
    /\ UNCHANGED <<fs, ndebug, cfg, recursive, ran, prev, caller>>

\* Lines 242-248: the directory iterator yields its next entry (in an order
\* the filesystem decides) and pre_process is called on it.
PreProcess ==
    /\ pc = "scan"
    /\ \E e \in pending :
         /\ pending' = pending \ {e}
         /\ Apply(pre_process(e))
         /\ paths_exclude' = ExcludedAfter(e, path_exclude_from, paths_exclude)
    /\ UNCHANGED <<fs, ndebug, block_size, file_min_size, paths_scan, rxpatterns>>
    /\ UNCHANGED <<path_exclude_from, recursive, idx, ran, prev, caller>>

\* Line 250: run() returns.
RunEnd ==
    /\ pc = "scan"
    /\ pending = {}
    /\ idx > Len(paths_scan)
    /\ pc' = "idle"
    /\ UNCHANGED <<fs, ndebug, cfg, engine, recursive, idx, pending, ghost, caller>>


\* begin() / end() on the engine, once run() has returned; the caller lets go
\* of the Accessor of an earlier traversal.
Begin ==
    /\ pc = "idle"
    /\ it' = <<begin(root)>>
    /\ origin' = "begin"
    /\ acc' = <<>> /\ vis' = <<>> /\ at_end' = FALSE
    /\ UNCHANGED <<fs, ndebug, cfg, engine, pc, recursive, idx, pending, ghost>>

End ==
    /\ pc = "idle"
    /\ it' = <<end(root)>>
    /\ origin' = "end"
    /\ acc' = <<>> /\ vis' = <<>> /\ at_end' = FALSE
    /\ UNCHANGED <<fs, ndebug, cfg, engine, pc, recursive, idx, pending, ghost>>

\* operator++
Increment ==
    /\ pc = "idle"
    /\ it # <<>>
    /\ ~it[1].failed
    /\ it' = <<next(root, it[1])>>
    /\ UNCHANGED <<fs, ndebug, cfg, engine, pc, recursive, idx, pending, ghost, origin, acc, vis, at_end>>

\* operator*: the Accessor is a copy of the iterator's.
Deref ==
    /\ pc = "idle"
    /\ it # <<>>
    /\ ~it[1].failed
    /\ acc' = <<operator_star(it[1])>>
    /\ vis' = <<>>
    /\ at_end' = IterEq(it[1], end(root))
    /\ UNCHANGED <<fs, ndebug, cfg, engine, pc, recursive, idx, pending, ghost, it, origin>>

\* Accessor::visit with a visitor that collects the paths.
Visit ==
    /\ pc = "idle"
    /\ acc # <<>>
    /\ \E o \in visit(root, AccessorImpl(acc[1], it[1])) : vis' = <<o>>
    /\ UNCHANGED <<fs, ndebug, cfg, engine, pc, recursive, idx, pending, ghost, it, origin, acc, at_end>>

----------------------------------------------------------------------------
\* Initial states.

File(data) == [kind |-> "file", data |-> data, readable |-> TRUE]
Dir == [kind |-> "dir", data |-> <<>>, readable |-> TRUE]

D == <<"d">>
FlatFiles == {<<"d", "a">>, <<"d", "b">>, <<"d", "c">>}

\* One directory d holding three regular files of any content.  The engine
\* does not look at the names here and the directory iterator may yield the
\* files in any order, so contents are drawn up to renaming the files.
FlatFS ==
    {[p \in {D} \cup FlatFiles |-> IF p = D THEN Dir ELSE File(c[p])] :
        c \in {x \in [FlatFiles -> Contents] :
                  /\ Digest(x[<<"d", "a">>]) <= Digest(x[<<"d", "b">>])
                  /\ Digest(x[<<"d", "b">>]) <= Digest(x[<<"d", "c">>])}}

InitEngine ==
    /\ root = EmptyTrie
    /\ buffer = [i \in 1..block_size |-> 0]
    /\ path_exclude_from = NoPath
    /\ pc = "idle"
    /\ recursive = FALSE
    /\ idx = 1
    /\ pending = {}
    /\ hashes = 0
    /\ order = <<>>
    /\ ran = FALSE
    /\ prev = <<>>
    /\ it = <<>>
    /\ origin = "none"
    /\ acc = <<>>
    /\ vis = <<>>
    /\ at_end = FALSE

Init ==
    /\ fs \in FlatFS
    /\ ndebug = TRUE
    /\ block_size \in 1..MaxBlockSize
    /\ file_min_size \in {0, 1}
    /\ paths_scan = <<D>>
    /\ paths_exclude = <<>>
    /\ rxpatterns = <<>>
    /\ InitEngine

Next ==
    \/ RunBegin \/ ScanRoot \/ PreProcess \/ RunEnd
    \/ Begin \/ End \/ Increment \/ Deref \/ Visit

Spec == Init /\ [][Next]_vars

\* A filesystem for failing reads: the flat directory with file c unreadable
\* (its open fails) and the other two files of any non-empty content.
IOFS ==
    {[p \in {D} \cup FlatFiles |->
        IF p = D THEN Dir
        ELSE IF p = <<"d", "c">> THEN [File(<<1>>) EXCEPT !.readable = FALSE]
        ELSE File(c[p])] :
        c \in {x \in [FlatFiles -> Contents \ {<<>>}] :
                  Digest(x[<<"d", "a">>]) <= Digest(x[<<"d", "b">>])}}

InitIO ==
    /\ fs \in IOFS
    /\ ndebug \in BOOLEAN
    /\ block_size \in 1..MaxBlockSize
    /\ file_min_size = 1
    /\ paths_scan = <<D>>
    /\ paths_exclude = <<>>
    /\ rxpatterns = <<>>
    /\ InitEngine

SpecIO == InitIO /\ [][Next]_vars

\* A filesystem for scanning: directory d with file a and subdirectory s,
\* which holds files a and b; o is neither a regular file nor a directory, and
\* x does not exist.
S == <<"d", "s">>
O == <<"o">>
X == <<"x">>
ScanFS ==
    {(D :> Dir) @@ (S :> Dir) @@ (O :> [kind |-> "other", data |-> <<>>, readable |-> TRUE])
       @@ (<<"d", "a">> :> File(<<1>>)) @@ (<<"d", "s", "a">> :> File(c))
       @@ (<<"d", "s", "b">> :> File(<<1, 1>>)) :
        c \in {<<1>>, <<1, 0>>}}
ScanLists ==
    {<<D>>, <<S, D>>, <<D, S>>, <<<<"d", "s", "a">>, D>>, <<X, O, S>>,
     <<S, S>>, <<<<"d", "s", "a">>, S, D>>}
ExcludeLists ==
    {<<>>, <<<<"s">>>>, <<<<"s", "a">>>>, <<<<"b">>, <<"a">>>>, <<<<"d", "s">>>>}

InitScan ==
    /\ fs \in ScanFS
    /\ ndebug = TRUE
    /\ block_size \in 1..MaxBlockSize
    /\ file_min_size \in {1, 2}
    /\ paths_scan \in ScanLists
    /\ paths_exclude \in ExcludeLists
    /\ rxpatterns \in {<<>>, <<{"a"}>>}
    /\ InitEngine

SpecScan == InitScan /\ [][Next]_vars

----------------------------------------------------------------------------
\* Notions the properties are stated in.

\* The block sequence of a file: its content cut into blocks of block_size
\* bytes, the final block padded with zeros; and the digests of the blocks.
NumBlocks(p) == (file_size(p) + block_size - 1) \div block_size
Block(p, k) ==
    [i \in 1..block_size |->
        IF k * block_size + i <= file_size(p) THEN fs[p].data[k * block_size + i] ELSE 0]
BlockDigests(p) == [k \in 1..NumBlocks(p) |-> Digest(Block(p, k - 1))]

\* The accepted files of the current run.
AcceptedFiles == Range(order)
SameClass(a, b) == \E c \in Classes(root) : a \in c /\ b \in c
RunDone == pc = "idle" /\ ran

----------------------------------------------------------------------------
\* C1: after any run(), two distinct accepted files are in the same class
\* if and only if they have the same size and the same sequence of block
\* digests; so files of different size are never in one class.
C1_SameLeafIffSameSizeAndBlocks ==
    RunDone =>
        \A a \in AcceptedFiles : \A b \in AcceptedFiles \ {a} :
            SameClass(a, b) <=>
                (file_size(a) = file_size(b) /\ BlockDigests(a) = BlockDigests(b))

\* C2: a run in which all accepted files have pairwise distinct sizes makes
\* no hash_block call.
C2_DistinctSizesNeverHashed ==
    (/\ RunDone
     /\ \A a \in AcceptedFiles : \A b \in AcceptedFiles \ {a} :
            file_size(a) # file_size(b))
        => hashes = 0

\* C3: after every completed process call, a node holding files (a non-empty
\* duplicates list) has no children.
C3_FilesOrChildren ==
    pc \in {"idle", "scan"} =>
        \A n \in DOMAIN root : root[n].duplicates # <<>> => childs(root, n) = {}

\* C4: the paths the trie holds, counted with multiplicity over every
\* duplicates list and every pending file, are exactly the paths that passed
\* the candidate filter in this run, after every process call and after run().
C4_PathsConserved ==
    pc \in {"idle", "scan"} => Stored(root) = BagOf(order)

\* C4 witness: a finished run that accepted three files, pushed a pending
\* file two levels down and left a class of two.
C4_Witness ==
    /\ RunDone
    /\ Len(order) = 3
    /\ \E n \in DOMAIN root : Len(n) >= 2 /\ Len(root[n].duplicates) = 2

\* The keys process() reads for a file until its read hits end-of-file:
\* those of blocks 0 .. size div block_size.
ReadKeys(p) ==
    [k \in 1..(file_size(p) \div block_size + 1) |-> Digest(Block(p, k - 1))]

\* C5: the partition into classes a run leaves does not depend on the order
\* in which the accepted files were inserted: whatever the order, it is the
\* partition of the accepted files by the keys read for them.
C5_OrderIndependent ==
    RunDone =>
        Classes(root) =
            {{b \in AcceptedFiles : ReadKeys(b) = ReadKeys(a)} : a \in AcceptedFiles}

\* C5 witness: a finished run that inserted the three files in an order other
\* than that of their names and left a class of two and a class of one.
C5_Witness ==
    /\ RunDone
    /\ Len(order) = 3
    /\ order[1] = <<"d", "c">>
    /\ order[3] = <<"d", "b">>
    /\ Cardinality(Classes(root)) = 2
    /\ \E n \in DOMAIN root : Len(n) >= 2 /\ Len(root[n].duplicates) = 2

\* C6: run() clears what the run before left, so a second run() with the same
\* argument on the same filesystem leaves the classes of the first, no path
\* held more often than before.
C6_RunIdempotent ==
    (RunDone /\ prev # <<>>)
        => (recursive = prev[1].recursive => ClassBags(root) = prev[1].classes)

\* C6 witness: a second run has finished and left three files in two classes.
C6_Witness ==
    /\ RunDone
    /\ prev # <<>>
    /\ Len(order) = 3
    /\ recursive = prev[1].recursive
    /\ Cardinality(ClassBags(root)) = 2

\* The traversal for (it = begin(); it != end(); ++it) (*it).visit(...): the
\* outcomes of the visits, in order.  It is cut off, with an entry that is
\* no outcome, once more steps were taken than a trie of this size allows.
RECURSIVE Traverse(_, _, _)
Traverse(tr, s, fuel) ==
    IF IterEq(s, end(tr)) THEN <<>>
    ELSE IF fuel = 0 \/ s.failed THEN <<{}>>
    ELSE <<visit(tr, s.accessor)>> \o Traverse(tr, next(tr, s), fuel - 1)

RECURSIVE Concat(_)
Concat(ss) == IF ss = <<>> THEN <<>> ELSE Head(ss) \o Concat(Tail(ss))

\* The lists the classes of the trie are held in.
ClassLists(tr) ==
    {tr[n].duplicates : n \in {m \in DOMAIN tr : tr[m].duplicates # <<>>}}
    \cup {<<tr[n].file_to_compare>> : n \in {m \in DOMAIN tr : tr[m].file_to_compare # NoPath}}
NumClasses(tr) ==
    Cardinality({m \in DOMAIN tr : tr[m].duplicates # <<>>})
    + Cardinality({m \in DOMAIN tr : tr[m].file_to_compare # NoPath})

\* C7: on every trie run() leaves, going from begin() to end() by ++ yields
\* one Accessor per class, each visit hands its visitor the paths of one
\* class, and together the visits hand over every stored path exactly once.
C7_IteratorCoverage ==
    pc = "idle" =>
        LET w == Traverse(root, begin(root), 2 * Cardinality(DOMAIN root) + 2)
            paths == [i \in 1..Len(w) |-> (CHOOSE o \in w[i] : TRUE).paths]
        IN  /\ \A i \in 1..Len(w) :
                  /\ Cardinality(w[i]) = 1
                  /\ \A o \in w[i] : o.status = "ok" /\ o.paths \in ClassLists(root)
            /\ Len(w) = NumClasses(root)
            /\ (\A i \in 1..Len(w) : w[i] # {}) => BagOf(Concat(paths)) = Stored(root)

\* C7 witness: the caller's iterator went from begin() to end() over a trie
\* of two or more classes with a node that holds ended files beside a
\* pending file or children.
C7_Witness ==
    /\ RunDone
    /\ it # <<>>
    /\ origin = "begin"
    /\ IterEq(it[1], end(root))
    /\ NumClasses(root) >= 2
    /\ \E n \in DOMAIN root :
          /\ root[n].duplicates # <<>>
          /\ (root[n].file_to_compare # NoPath \/ childs(root, n) # {})

\* C8: visit() on the Accessor of an iterator equal to end() fails with the
\* "bad access" error and hands nothing to the visitor.
C8_EndVisitBadAccess ==
    (vis # <<>> /\ at_end) => vis[1] = Outcome("bad access", <<>>)

\* C9: when the open or a read of a file fails while a block is hashed, the
\* file is dropped, the insertion ends and the trie stays sound: the program
\* goes on, and every file below the root is readable and sits under the
\* keys of its own blocks.
C9_FailedReadDropsFile ==
    /\ pc # "aborted"
    /\ \A n \in DOMAIN root \ {<<>>} :
          \A p \in DOMAIN NodeBag(root, n) :
              fs[p].readable /\ IsPrefix(n, ReadKeys(p))

\* Whether the form of e relative to the scan root from holds an element of
\* paths_exclude as a contiguous run of path elements.
HoldsExcluded(e, from) ==
    LET rel == SubSeq(e, Len(from) + 1, Len(e)) IN
    \E k \in 1..Len(paths_exclude) :
        LET ex == paths_exclude[k] IN
        \E i \in 0..(Len(rel) - Len(ex)) : \A j \in 1..Len(ex) : rel[i + j] = ex[j]

\* C10: an entry the directory iterator yields under the root being
\* enumerated (paths_scan[idx - 1]) whose form relative to that root holds an
\* excluded path is not inserted; a regular file named as a scan root that
\* passes the size and name filter is inserted, whatever paths_exclude says.
C10_Exclusion ==
    [][/\ (pc = "scan" /\ pending # {})
            => \A e \in pending \ pending' :
                  HoldsExcluded(e, paths_scan[idx - 1])
                      => (order' = order /\ root' = root)
       /\ (/\ pc = "scan" /\ pending = {} /\ idx <= Len(paths_scan)
           /\ is_regular_file(paths_scan[idx]) /\ Accepted(paths_scan[idx]))
            => order' = Append(order, paths_scan[idx])]_vars

\* C10 witness: the second root, a directory, is being enumerated after a
\* first directory root; a regular file that passes the size and name
\* filter and holds an excluded path relative to the second root has been
\* yielded; it was inserted under the first root, where its relative form
\* holds no excluded path, and not again.
C10_Witness ==
    /\ pc = "scan"
    /\ idx = 3
    /\ is_directory(paths_scan[1])
    /\ is_directory(paths_scan[2])
    /\ path_exclude_from = paths_scan[2]
    /\ \E e \in Entries(paths_scan[2], recursive) \ pending :
          /\ is_regular_file(e)
          /\ Accepted(e)
          /\ HoldsExcluded(e, paths_scan[2])
          /\ ~HoldsExcluded(e, paths_scan[1])
          /\ Cardinality({i \in 1..Len(order) : order[i] = e}) = 1

\* The place of path p in the order of insertion of the current run.
InsertedAt(p) == CHOOSE i \in 1..Len(order) : order[i] = p

\* C11: inside every class the files stand in the order in which process()
\* inserted them: of two members of one duplicates list, the one inserted
\* earlier comes first.
C11_ClassKeepsInsertionOrder ==
    pc \in {"idle", "scan"} =>
        \A n \in DOMAIN root :
            \A i, j \in 1..Len(root[n].duplicates) :
                i < j => /\ root[n].duplicates[i] \in Range(order)
                         /\ root[n].duplicates[j] \in Range(order)
                         /\ InsertedAt(root[n].duplicates[i])
                                < InsertedAt(root[n].duplicates[j])

\* C11 witness: a finished run whose three files were inserted in an order
\* other than that of their names and ended in one class of three.
C11_Witness ==
    /\ RunDone
    /\ order = <<<<"d", "c">>, <<"d", "a">>, <<"d", "b">>>>
    /\ \E n \in DOMAIN root : root[n].duplicates = order

\* C12: two accepted files of one size whose first blocks have the same
\* digest end in the same class if and only if their contents, the final
\* block padded with zeros, agree at every block after the first.
C12_SameFirstBlock ==
    RunDone =>
        \A a \in AcceptedFiles : \A b \in AcceptedFiles \ {a} :
            (/\ file_size(a) = file_size(b)
             /\ Digest(Block(a, 0)) = Digest(Block(b, 0)))
                => (SameClass(a, b) <=>
                        \A k \in 1..(NumBlocks(a) - 1) : Block(a, k) = Block(b, k))

\* C12 witness: a finished run over three files of two blocks with one first
\* block, two of them equal in the second block and in one class, the third
\* different in the second block and in another class.
C12_Witness ==
    /\ RunDone
    /\ \E a \in AcceptedFiles : \E b \in AcceptedFiles \ {a} :
       \E c \in AcceptedFiles \ {a, b} :
           /\ NumBlocks(a) = 2 /\ NumBlocks(b) = 2 /\ NumBlocks(c) = 2
           /\ Block(a, 0) = Block(b, 0) /\ Block(a, 0) = Block(c, 0)
           /\ Block(a, 1) = Block(b, 1) /\ Block(a, 1) # Block(c, 1)
           /\ SameClass(a, b) /\ ~SameClass(a, c)

\* The first block index at which the blocks of a and b differ or at which
\* the read of block_size bytes reaches the end of the file (files of one
\* size), and the least member of a non-empty set of naturals.
Least(ks) == CHOOSE k \in ks : \A j \in ks : k <= j
FirstSplit(a, b) ==
    Least({k \in 0..(file_size(a) \div block_size) :
              \/ Block(a, k) # Block(b, k)
              \/ file_size(a) - k * block_size < block_size})

\* C13: a run that accepts exactly two files, of one size, makes exactly
\* 2 * (k + 1) hash_block calls, k being the first block index at which the
\* two digests differ or at which the read reaches end-of-file.
C13_DigestCalls ==
    (/\ RunDone
     /\ Len(order) = 2
     /\ file_size(order[1]) = file_size(order[2]))
        => hashes = 2 * (FirstSplit(order[1], order[2]) + 1)

\* C13 witness: a finished run that accepted exactly two files of two
\* blocks which share block 0 and differ at block 1, after four calls.
C13_Witness ==
    /\ RunDone
    /\ Len(order) = 2
    /\ file_size(order[1]) = file_size(order[2])
    /\ Block(order[1], 0) = Block(order[2], 0)
    /\ Block(order[1], 1) # Block(order[2], 1)
    /\ hashes = 4

PathsAt(tr, n) ==
    Range(tr[n].duplicates)
    \cup (IF tr[n].file_to_compare = NoPath THEN {} ELSE {tr[n].file_to_compare})

\* C15: every path the trie holds, whether the directory iterator yielded it
\* or it was named as a scan root, is at least file_min_size bytes long and,
\* when rxpatterns is not empty, has a filename one of the patterns matches.
C15_Admission ==
    pc \in {"idle", "scan"} =>
        \A n \in DOMAIN root : \A p \in PathsAt(root, n) :
            /\ Len(fs[p].data) >= file_min_size
            /\ rxpatterns # <<>> =>
                  \E k \in 1..Len(rxpatterns) : p[Len(p)] \in rxpatterns[k]

\* C15 witness: a finished run with a pattern and a size limit of two bytes
\* holds a file named as a scan root and would have met, by enumeration, a
\* file too short and a file with a name no pattern matches.
C15_Witness ==
    /\ RunDone
    /\ rxpatterns # <<>>
    /\ file_min_size = 2
    /\ is_regular_file(paths_scan[1])
    /\ \E n \in DOMAIN root : paths_scan[1] \in PathsAt(root, n)
    /\ \E e \in Entries(paths_scan[2], recursive) :
          is_regular_file(e) /\ Len(fs[e].data) < file_min_size
    /\ \E e \in Entries(paths_scan[2], recursive) :
          is_regular_file(e) /\ Len(fs[e].data) >= file_min_size
              /\ \A k \in 1..Len(rxpatterns) : e[Len(e)] \notin rxpatterns[k]

\* The iterator s after j increments.
RECURSIVE Advance(_, _, _)
Advance(tr, s, j) == IF j = 0 THEN s ELSE Advance(tr, next(tr, s), j - 1)

\* C16: on every trie run() leaves, with c classes, begin() incremented j
\* times differs from end() for every j < c and equals end() for j = c (so
\* begin() equals end() exactly on the empty trie), and from there every
\* further increment leaves the iterator equal to end().
C16_IterationProtocol ==
    pc = "idle" =>
        LET c == NumClasses(root) IN
        /\ \A j \in 0..c :
              IterEq(Advance(root, begin(root), j), end(root)) <=> j = c
        /\ \A j \in (c + 1)..(c + 3) :
              IterEq(Advance(root, begin(root), j), end(root))
        /\ (it # <<>> /\ IterEq(it[1], end(root)))
              => IterEq(next(root, it[1]), end(root))

\* C16 witness: after a run that left one file, pending at the root, the
\* caller's iterator, taken from begin(), has been incremented to end().
C16_Witness ==
    /\ RunDone
    /\ root[<<>>].file_to_compare # NoPath
    /\ NumClasses(root) = 1
    /\ it # <<>>
    /\ origin = "begin"
    /\ IterEq(it[1], end(root))

\* The node an iterator stands on, and the nodes and the classes a traversal
\* from s to end() passes, in the order it passes them.
NodeOf(s) ==
    IF s.accessor.iterator = <<>> THEN <<>> ELSE Second(s.accessor.iterator[1])
ClassOf(tr, s) ==
    IF s.accessor.iterator = <<>> \/ s.accessor.on_file_to_compare
    THEN {tr[NodeOf(s)].file_to_compare}
    ELSE Range(tr[NodeOf(s)].duplicates)
RECURSIVE Yielded(_, _, _)
Yielded(tr, s, fuel) ==
    IF IterEq(s, end(tr)) \/ fuel = 0 \/ s.failed THEN <<>>
    ELSE <<[node |-> NodeOf(s), class |-> ClassOf(tr, s)]>>
            \o Yielded(tr, next(tr, s), fuel - 1)

\* Node m comes no later than node n in the depth-first order that takes a
\* node before its children and the children in ascending key order.
DepthFirstLeq(m, n) ==
    \/ IsPrefix(m, n)
    \/ \E k \in 1..Min(Len(m), Len(n)) :
          /\ SubSeq(m, 1, k - 1) = SubSeq(n, 1, k - 1)
          /\ m[k] < n[k]

\* Classes in the order of the nodes that hold them.
YieldsDepthFirst ==
    pc = "idle" =>
        LET y == Yielded(root, begin(root), 2 * Cardinality(DOMAIN root) + 2) IN
        \A i, j \in 1..Len(y) : i < j => DepthFirstLeq(y[i].node, y[j].node)

\* C17: the iterator yields every class of smaller files before every class
\* of larger files, and the classes of files of one size in depth-first
\* order, the children of a node in ascending order of their digest keys.
C17_TraversalOrder ==
    pc = "idle" =>
        LET y == Yielded(root, begin(root), 2 * Cardinality(DOMAIN root) + 2) IN
        \A i, j \in 1..Len(y) :
            i < j =>
                /\ \A p \in y[i].class : \A q \in y[j].class :
                       file_size(p) <= file_size(q)
                /\ DepthFirstLeq(y[i].node, y[j].node)

\* C18: while the trie is not changed and the caller keeps the Accessor it
\* took from the iterator, a step that moves the iterator leaves the
\* Accessor as it is, and visit() on it hands over the same class as before
\* the step.
C18_AccessorIsACopy ==
    [][(acc # <<>> /\ acc' # <<>> /\ it' # it /\ root' = root)
          => /\ acc' = acc
             /\ visit(root', AccessorImpl(acc'[1], it'[1]))
                    = visit(root, AccessorImpl(acc[1], it[1]))]_vars

\* C18 witness: the Accessor taken at begin() on a trie of two or more
\* classes has handed its class over while the iterator it was taken from
\* stands on another class.
C18_Witness ==
    /\ RunDone
    /\ NumClasses(root) >= 2
    /\ acc # <<>>
    /\ it # <<>>
    /\ origin = "begin"
    /\ acc[1].impl = begin(root).accessor
    /\ it[1].accessor # acc[1].impl
    /\ ~IterEq(it[1], end(root))
    /\ vis # <<>>
    /\ vis[1].status = "ok"
    /\ vis[1] \in visit(root, acc[1].impl)
    /\ vis[1] \notin visit(root, it[1].accessor)

\* C19: after every completed process call a node with a pending file, the
\* root included, has no children, a node's pending file is one path at
\* most, and the duplicates list of the root is empty.
C19_PendingRestsAtLeaf ==
    pc \in {"idle", "scan"} =>
        /\ \A n \in DOMAIN root :
              /\ root[n].file_to_compare # NoPath => childs(root, n) = {}
              /\ root[n].file_to_compare \in {NoPath} \cup Range(order)
        /\ root[<<>>].duplicates = <<>>

\* C19 witness: in the middle of a run, after a process call that hashed,
\* a pending file rests at a childless node below the root, beside a node
\* that holds ended files and has a child.
C19_Witness ==
    /\ pc = "scan"
    /\ hashes > 0
    /\ \E n \in DOMAIN root \ {<<>>} :
          root[n].file_to_compare # NoPath /\ childs(root, n) = {}
    /\ \E m \in DOMAIN root :
          root[m].duplicates # <<>> /\ childs(root, m) # {}

\* Node n holds a file: ended files or a pending file.
HoldsFile(tr, n) == tr[n].duplicates # <<>> \/ tr[n].file_to_compare # NoPath

\* C20: after every process call every node below the root holds a file or
\* has a child, so on the trie a run leaves no assert() of
\* lookup_end_at_left fails on the way from begin() to end(), and every
\* position before end() is on a node holding the file or files it stands
\* for.
C20_AssertionsHold ==
    /\ pc \in {"idle", "scan"} =>
          \A n \in DOMAIN root \ {<<>>} :
              HoldsFile(root, n) \/ childs(root, n) # {}
    /\ pc = "idle" =>
          LET c == NumClasses(root) IN
          \A j \in 0..c :
              LET s == Advance(root, begin(root), j) IN
              /\ ~s.failed
              /\ j < c => /\ HoldsFile(root, NodeOf(s))
                          /\ ClassOf(root, s) # {}
                          /\ NoPath \notin ClassOf(root, s)

\* C20 witness: the caller's iterator, taken from begin(), stands on a node
\* two levels down whose parent holds no file, so the left-descent of
\* lookup_end_at_left went through a node that has children only.
C20_Witness ==
    /\ RunDone
    /\ it # <<>>
    /\ origin = "begin"
    /\ ~it[1].failed
    /\ ~IterEq(it[1], end(root))
    /\ Len(NodeOf(it[1])) = 2
    /\ ~HoldsFile(root, SubSeq(NodeOf(it[1]), 1, 1))

\* The sum of the depths at which the trie holds its paths, each path
\* counted as often as it is held.
RECURSIVE SumDepths(_, _)
SumDepths(tr, ns) ==
    IF ns = {} THEN 0
    ELSE LET n == CHOOSE x \in ns : TRUE
         IN  Len(n) * (Len(tr[n].duplicates)
                        + (IF tr[n].file_to_compare = NoPath THEN 0 ELSE 1))
             + SumDepths(tr, ns \ {n})

\* C21: after every process call on readable files, a file of size S in a
\* duplicates list sits at depth S div block_size + 1 exactly, a pending
\* file at depth S div block_size at most, and the hash_block calls made so
\* far are one per file and level it went down, so no file had more than
\* S div block_size + 1 of its blocks hashed and every call came to an end.
C21_DepthBound ==
    pc \in {"idle", "scan"} =>
        /\ \A n \in DOMAIN root :
              /\ \A p \in Range(root[n].duplicates) :
                    Len(n) = (file_size(p) \div block_size) + 1
              /\ root[n].file_to_compare # NoPath =>
                    Len(n) <= file_size(root[n].file_to_compare) \div block_size
        /\ hashes = SumDepths(root, DOMAIN root)

\* C21 witness: a finished run left a file whose size is a positive
\* multiple of block_size in a duplicates list one level below its last
\* block, and another file pending below the root.
C21_Witness ==
    /\ RunDone
    /\ \E n \in DOMAIN root : \E p \in Range(root[n].duplicates) :
          /\ file_size(p) > 0
          /\ file_size(p) % block_size = 0
          /\ Len(n) = (file_size(p) \div block_size) + 1
    /\ \E m \in DOMAIN root \ {<<>>} : root[m].file_to_compare # NoPath

\* How often path p stands in the list of paths ps.
Times(p, ps) == Cardinality({i \in 1..Len(ps) : ps[i] = p})

\* C22: a path that passed the filter k >= 2 times in one run (a root named
\* twice, roots that overlap, a file named as a root and met again by
\* enumeration) is held k times by the trie once run() has returned, all k
\* times in one duplicates list.
C22_NoDeduplication ==
    RunDone =>
        \A p \in Range(order) :
            Times(p, order) >= 2 =>
                \E n \in DOMAIN root :
                    Times(p, root[n].duplicates) = Times(p, order)

\* C22 witness: a finished run named a file as a root and met it again
\* under two overlapping directory roots; the file stands three times in
\* one duplicates list.
C22_Witness ==
    /\ RunDone
    /\ Len(paths_scan) = 3
    /\ is_regular_file(paths_scan[1])
    /\ Times(paths_scan[1], order) = 3
    /\ \E n \in DOMAIN root : Times(paths_scan[1], root[n].duplicates) = 3

============================================================================
